---- MODULE Spec2Model ----
(***************************************************************************)
(* UrbanWell: NASA client (mode resolution, the three signal fetchers),    *)
(* the dashboard / alerts handlers and the SQLite store they share.        *)
(* Numbers: the observed quantities are whole units, except ndvi and evi,   *)
(* which are kept in tenths (0.2 is 2); the                                *)
(* wellbeing index is kept in tenths (index * 10), so that the weights     *)
(* 0.4 / 0.3 / 0.3 become the integers 4 / 3 / 3.                          *)
(***************************************************************************)
EXTENDS Integers, Sequences, FiniteSets, TLC

VARIABLES
    username,            \* NASA_CONFIG['earthdata_username']
    password,            \* NASA_CONFIG['earthdata_password']
    api_key,             \* NASA_CONFIG['api_key']
    earthaccess,         \* TRUE iff `import earthaccess` succeeds in this process
    login_raises,        \* TRUE iff earthaccess.login(...) raises for these credentials
    authenticated,       \* nasa_client.authenticated
    clock,               \* datetime.now(), a logical time
    call,                \* a direct call of a fetcher or of the reducer: inputs and result
    locations,           \* ids of the rows of table locations
    air_quality,         \* committed rows of table air_quality, in rowid order
    water_data,          \* committed rows of table water_data
    vegetation,          \* committed rows of table vegetation
    api_logs,            \* committed rows of table api_logs
    writer,              \* the dashboard request whose connection holds SQLite's write lock, or 0
    pc,                  \* pc[q]: where dashboard request q is in get_dashboard_data
    req,                 \* req[q]: the location_id of request q
    conn,                \* conn[q]: state of q's connection and its uncommitted rows
    data,                \* data[q]: air_data, water_data, vegetation_data of request q
    response,            \* response[q]: what q returned
    apc,                 \* apc[r]: where alerts request r is in get_alerts
    areq,                \* areq[r]: the location_id of alerts request r
    latest,              \* latest[r]: latest_air and latest_water as read by r
    alerts,              \* alerts[r]: the list r returned
    hpc,                 \* hpc[h]: where history request h is in get_historical_data
    hreq,                \* hreq[h]: the location_id and the days argument of request h
    history              \* history[h]: the rows h has read, and what it returned

client_vars == <<username, password, api_key, earthaccess, login_raises, authenticated>>

\* Python's None
None == [none |-> TRUE]

----------------------------------------------------------------------------
(* Configuration inputs.                                                   *)

Placeholder == "your_earthdata_username_here"

Usernames == {"", Placeholder, "astro"}
Passwords == {"", "hunter2"}
ApiKeys   == {"", "DEMO_KEY"}

\* Python truthiness of a str
Truthy(s) == s # ""

----------------------------------------------------------------------------
(* NASAAPIClient.__init__ / setup_authentication                           *)

\* variant: authenticated is set whether or not the login raised
setup_authentication_ignoring_failure(installed, raises) == TRUE

\* setup_authentication: earthaccess.login inside try; ImportError falls back
\* to requests basic auth; any other exception leaves authenticated False.
setup_authentication(installed, raises) ==
    IF installed
    THEN (IF raises THEN FALSE ELSE TRUE)
    ELSE TRUE

ClientInit(u, p, installed, raises) ==
    IF Truthy(u) /\ Truthy(p)
    THEN setup_authentication(installed, raises)
    ELSE FALSE

----------------------------------------------------------------------------
(* Source tags                                                             *)

SIMULATION         == "SIMULATION"
NASA_TEMPO_OMI     == "NASA_TEMPO_OMI"
NASA_GRACE_GPM     == "NASA_GRACE_GPM"
NASA_MODIS_LANDSAT == "NASA_MODIS_LANDSAT"

Domains == {"air", "water", "vegetation"}

VendorTag(d) ==
    CASE d = "air"        -> NASA_TEMPO_OMI
      [] d = "water"      -> NASA_GRACE_GPM
      [] d = "vegetation" -> NASA_MODIS_LANDSAT

----------------------------------------------------------------------------
(* The random draws of one observation (random.randint / uniform / choice),*)
(* restricted to the ends of each range.                                   *)

AqiDraws        == {50, 150}
GroundwaterDraws == {-20, 20}
FloodRiskDraws  == {"Low", "Medium", "High"}
GreenDraws      == {15, 65}
No2Draws        == {10, 50}
O3Draws         == {20, 80}
Pm25Draws       == {5, 35}
So2Draws        == {1, 15}
PrecipitationDraws == {0, 15}
NdviDraws       == {2, 8}         \* tenths
EviDraws        == {1, 6}         \* tenths
TemperatureDraws == {20, 35}

\* the least and the greatest element of a set of draws
Least(S) == CHOOSE x \in S : \A y \in S : x <= y
Greatest(S) == CHOOSE x \in S : \A y \in S : y <= x

\* The draws are independent.  The columns no handler reads back (no2, o3,
\* pm25, so2; ndvi, evi, temperature) are taken together at the low or at
\* the high end of their ranges.
DrawsFor(d) ==
    CASE d = "air" ->
           {r \in [no2 : No2Draws, o3 : O3Draws, pm25 : Pm25Draws, so2 : So2Draws,
                   aqi : AqiDraws] :
               \E end \in {"low", "high"} :
                   LET Pick(S) == IF end = "low" THEN Least(S) ELSE Greatest(S)
                   IN  /\ r.no2 = Pick(No2Draws) /\ r.o3 = Pick(O3Draws)
                       /\ r.pm25 = Pick(Pm25Draws) /\ r.so2 = Pick(So2Draws)}
      [] d = "water" ->
           [groundwater_level : GroundwaterDraws, precipitation : PrecipitationDraws,
            flood_risk : FloodRiskDraws]
      [] d = "vegetation" ->
           {r \in [ndvi : NdviDraws, evi : EviDraws, green_coverage : GreenDraws,
                   temperature : TemperatureDraws] :
               \E end \in {"low", "high"} :
                   LET Pick(S) == IF end = "low" THEN Least(S) ELSE Greatest(S)
                   IN  /\ r.ndvi = Pick(NdviDraws) /\ r.evi = Pick(EviDraws)
                       /\ r.temperature = Pick(TemperatureDraws)}

\* a dict whose values are not the draws of the documented ranges
ObservationUnranged(d, rnd, now, src) ==
    CASE d = "air" ->
           [timestamp |-> now, no2 |-> rnd.no2, o3 |-> rnd.o3, pm25 |-> rnd.pm25,
            so2 |-> rnd.so2, aqi |-> 2 * rnd.aqi, source |-> src]
      [] d = "water" ->
           [timestamp |-> now, groundwater_level |-> 2 * rnd.groundwater_level,
            precipitation |-> rnd.precipitation, flood_risk |-> rnd.flood_risk,
            source |-> src]
      [] d = "vegetation" ->
           [timestamp |-> now, ndvi |-> rnd.ndvi, evi |-> rnd.evi,
            green_coverage |-> 2 * rnd.green_coverage,
            temperature |-> rnd.temperature, source |-> src]

\* the dict a fetcher of domain d builds from the draws rnd at time now
Observation(d, rnd, now, src) ==
    CASE d = "air" ->
           [timestamp |-> now, no2 |-> rnd.no2, o3 |-> rnd.o3, pm25 |-> rnd.pm25,
            so2 |-> rnd.so2, aqi |-> rnd.aqi, source |-> src]
      [] d = "water" ->
           [timestamp |-> now, groundwater_level |-> rnd.groundwater_level,
            precipitation |-> rnd.precipitation, flood_risk |-> rnd.flood_risk,
            source |-> src]
      [] d = "vegetation" ->
           [timestamp |-> now, ndvi |-> rnd.ndvi, evi |-> rnd.evi,
            green_coverage |-> rnd.green_coverage,
            temperature |-> rnd.temperature, source |-> src]

\* _simulate_air_quality_data / _simulate_water_data / _simulate_vegetation_data
Simulate(d, rnd, now) == Observation(d, rnd, now, SIMULATION)

\* _process_nasa_air_data / _process_nasa_water_data / _process_nasa_vegetation_data:
\* the payload is ignored, the values are the same random draws, the tag is the vendor's
ProcessNasaData(d, rnd, now) == Observation(d, rnd, now, VendorTag(d))

----------------------------------------------------------------------------
(* What the outside world answers during one fetch.                        *)

PathAOutcomes == {"200", "200_badjson", "non200", "exception"}
PathBOutcomes == {"results", "empty", "exception"}
PathCOutcomes == {"200", "200_badjson", "non200", "exception"}

Envs == [a : PathAOutcomes, b : PathBOutcomes, c : PathCOutcomes]

\* outcome of a piece of Python code: it returned obs, or it raised
Return(obs, trace) == [raised |-> FALSE, obs |-> obs, trace |-> trace]
Raise(trace)       == [raised |-> TRUE,  obs |-> None, trace |-> trace]

\* Method 3 of each fetcher.
\* air: _fetch_nasa_opendata_air_quality does one GET; 200 -> processed vendor
\*      data, everything else (bare except included) -> simulation.
\* water / vegetation: _fetch_nasa_precipitation_data / _fetch_nasa_landsat_data
\*      are stubs that return the simulation.
PathC(d, env, rnd, now, trace) ==
    IF d = "air"
    THEN IF env.c = "200"
         THEN Return(ProcessNasaData(d, rnd, now), trace \o <<"C_request">>)
         ELSE Return(Simulate(d, rnd, now), trace \o <<"C_request">>)
    ELSE Return(Simulate(d, rnd, now), trace \o <<"C_stub">>)

\* variant: a non-empty search result is processed into a vendor observation
PathBProcessesResults(d, installed, env, rnd, now, trace) ==
    IF ~installed
    THEN PathC(d, env, rnd, now, trace \o <<"B_import_error">>)
    ELSE CASE env.b = "exception" -> Raise(trace \o <<"B_search">>)
           [] env.b = "results" ->
                Return(ProcessNasaData(d, rnd, now), trace \o <<"B_search">>)
           [] env.b = "empty" -> PathC(d, env, rnd, now, trace \o <<"B_search">>)

\* Method 2: the earthaccess search.  A non-empty result goes to
\* _process_omi_data / _process_grace_data / _process_modis_data, none of
\* which NASAAPIClient defines: the call raises AttributeError (for air,
\* after earthaccess.download has run).
PathB(d, installed, env, rnd, now, trace) ==
    IF ~installed
    THEN PathC(d, env, rnd, now, trace \o <<"B_import_error">>)
    ELSE CASE env.b = "exception" -> Raise(trace \o <<"B_search">>)
           [] env.b = "results" ->
                IF d = "air"
                THEN Raise(trace \o <<"B_search", "B_download">>)
                ELSE Raise(trace \o <<"B_search">>)
           [] env.b = "empty" -> PathC(d, env, rnd, now, trace \o <<"B_search">>)

\* Method 1: the api.nasa.gov request, made only with an API key.
PathA(d, key, installed, env, rnd, now) ==
    IF ~Truthy(key)
    THEN PathB(d, installed, env, rnd, now, <<>>)
    ELSE CASE env.a = "200" ->
                Return(ProcessNasaData(d, rnd, now), <<"A_request">>)
           [] env.a \in {"200_badjson", "exception"} ->
                Raise(<<"A_request">>)
           [] env.a = "non200" ->
                PathB(d, installed, env, rnd, now, <<"A_request">>)

\* variant: no `except Exception` around the vendor paths
ExceptSimulateMissing(body, d, rnd, now) == body

\* the `except Exception` of a fetcher: log, return the simulation
ExceptSimulate(body, d, rnd, now) ==
    IF body.raised
    THEN Return(Simulate(d, rnd, now), body.trace)
    ELSE body

\* variant: the vendor paths are tried without looking at self.authenticated
GetDataNoModeCheck(d, auth, key, installed, env, rnd, now) ==
    ExceptSimulate(PathA(d, key, installed, env, rnd, now), d, rnd, now)

\* get_air_quality_data / get_water_security_data / get_vegetation_data
GetData(d, auth, key, installed, env, rnd, now) ==
    IF ~auth
    THEN Return(Simulate(d, rnd, now), <<>>)
    ELSE ExceptSimulate(PathA(d, key, installed, env, rnd, now), d, rnd, now)

----------------------------------------------------------------------------
(* get_dashboard_data, lines 593-597 and 613: the wellbeing index, tenths. *)

Max2(a, b) == IF a >= b THEN a ELSE b
Min2(a, b) == IF a <= b THEN a ELSE b

\* `if air_data` and the like: None (or an empty dict) is falsy
Defined(d) == d # None

\* variant: 100 - aqi without max(0, ...)
air_score_unclamped(air_data) ==
    IF Defined(air_data) THEN 100 - air_data.aqi ELSE 50

air_score(air_data) ==
    IF Defined(air_data) THEN Max2(0, 100 - air_data.aqi) ELSE 50

\* variant: groundwater_level weighted 3 instead of 2
water_score_tripled(water) ==
    IF Defined(water) THEN 50 + (water.groundwater_level * 3) ELSE 50

water_score(water) ==
    IF Defined(water) THEN 50 + (water.groundwater_level * 2) ELSE 50

green_score(vegetation_data) ==
    IF Defined(vegetation_data) THEN vegetation_data.green_coverage ELSE 50

\* wellbeing_index * 10
wellbeing_index(air_data, water, vegetation_data) ==
    air_score(air_data) * 4 + water_score(water) * 3 + green_score(vegetation_data) * 3

\* variant: max(0, ...) without min(100, ...)
ClampIndexNoUpper(w) == Max2(0, w)

\* 'wellbeing_index': min(100, max(0, wellbeing_index)), times 10
ClampIndex(w) == Min2(1000, Max2(0, w))

DashboardIndex(air_data, water, vegetation_data) ==
    ClampIndex(wellbeing_index(air_data, water, vegetation_data))

----------------------------------------------------------------------------
(* get_alerts, lines 687-716.  The message text is left out.               *)

\* variant: danger only above 150
AirAlertsOffByOne(latest_air) ==
    IF Defined(latest_air) /\ latest_air.aqi > 100
    THEN << [type |-> "air_quality",
             severity |-> IF latest_air.aqi <= 150 THEN "warning" ELSE "danger",
             timestamp |-> latest_air.timestamp] >>
    ELSE << >>

AirAlerts(latest_air) ==
    IF Defined(latest_air) /\ latest_air.aqi > 100
    THEN << [type |-> "air_quality",
             severity |-> IF latest_air.aqi < 150 THEN "warning" ELSE "danger",
             timestamp |-> latest_air.timestamp] >>
    ELSE << >>

WaterAlerts(latest_water) ==
    IF Defined(latest_water)
    THEN (IF latest_water.flood_risk = "High"
          THEN << [type |-> "flood_risk", severity |-> "danger",
                   timestamp |-> latest_water.timestamp] >>
          ELSE << >>)
         \o
         (IF latest_water.groundwater_level < -15
          THEN << [type |-> "water_stress", severity |-> "warning",
                   timestamp |-> latest_water.timestamp] >>
          ELSE << >>)
    ELSE << >>

\* variant: the water checks run before the air check
EvaluateAlertsWaterFirst(latest_air, latest_water) ==
    WaterAlerts(latest_water) \o AirAlerts(latest_air)

EvaluateAlerts(latest_air, latest_water) ==
    AirAlerts(latest_air) \o WaterAlerts(latest_water)

----------------------------------------------------------------------------
(* The store.  A table is the sequence of its committed rows.  Each        *)
(* connection keeps the rows it has inserted and not yet committed; other  *)
(* connections do not see them.  Field `query` of a row names the          *)
(* dashboard request that inserted it (bookkeeping, not a column).         *)

NumSampleLocations == 6

AirRow(q, id, obs) ==
    [query |-> q, location_id |-> id, timestamp |-> obs.timestamp,
     no2 |-> obs.no2, o3 |-> obs.o3, pm25 |-> obs.pm25, so2 |-> obs.so2,
     aqi |-> obs.aqi, data_source |-> obs.source]

WaterRow(q, id, obs) ==
    [query |-> q, location_id |-> id, timestamp |-> obs.timestamp,
     groundwater_level |-> obs.groundwater_level,
     precipitation |-> obs.precipitation, flood_risk |-> obs.flood_risk,
     data_source |-> obs.source]

VegetationRow(q, id, obs) ==
    [query |-> q, location_id |-> id, timestamp |-> obs.timestamp,
     ndvi |-> obs.ndvi, evi |-> obs.evi, green_coverage |-> obs.green_coverage,
     temperature |-> obs.temperature, data_source |-> obs.source]

LogRow(q, id) ==
    [query |-> q, endpoint |-> "dashboard", location_id |-> id,
     response_status |-> "success"]

NoTx == [air_quality |-> << >>, water_data |-> << >>,
         vegetation |-> << >>, api_logs |-> << >>]

\* SELECT * FROM t WHERE location_id = ? ORDER BY timestamp DESC LIMIT 1, fetchone():
\* the rows it may return (any of the newest ones, None when there is none)
LatestRows(table, id) ==
    LET idx == {i \in 1..Len(table) : table[i].location_id = id}
        newest == {i \in idx : \A j \in idx : table[j].timestamp <= table[i].timestamp}
    IN  IF idx = {} THEN {None} ELSE {table[i] : i \in newest}

----------------------------------------------------------------------------
(* Bounds and request inputs.                                              *)

MaxQueries == 2          \* dashboard requests of one behaviour
MaxAlertRequests == 1    \* alerts requests of one behaviour
MaxHistoryRequests == 1  \* history requests of one behaviour

Queries == 1..MaxQueries
AlertRequests == 1..MaxAlertRequests
HistoryRequests == 1..MaxHistoryRequests

\* location ids a request may name: a sample location and an id of no row
LocationIds == {1, NumSampleLocations + 1}

vars == <<username, password, api_key, earthaccess, login_raises, authenticated,
          clock, call, locations, air_quality, water_data, vegetation, api_logs,
          writer, pc, req, conn, data, response, apc, areq, latest, alerts,
          hpc, hreq, history>>

store_vars == <<locations, air_quality, water_data, vegetation, api_logs, writer>>
dash_vars == <<pc, req, conn, data, response>>
alert_vars == <<apc, areq, latest, alerts>>
hist_vars == <<hpc, hreq, history>>

NoCall == [fn |-> "none"]
\* response[q].failed_at names the statement that raised, "" when none did
NoResponse == [status |-> 0, failed_at |-> ""]
NoHistory == [air_quality |-> << >>, water_security |-> << >>,
              vegetation |-> << >>, data_source |-> ""]

\* init_db on a fresh database file: the sample locations, empty logs
InitStore ==
    /\ locations = 1..NumSampleLocations
    /\ air_quality = << >>
    /\ water_data = << >>
    /\ vegetation = << >>
    /\ api_logs = << >>
    /\ writer = 0

InitRequests ==
    /\ pc = [q \in Queries |-> "idle"]
    /\ req = [q \in Queries |-> 0]
    /\ conn = [q \in Queries |-> [state |-> "none", tx |-> NoTx]]
    /\ data = [q \in Queries |-> [d \in Domains |-> None]]
    /\ response = [q \in Queries |-> NoResponse]
    /\ apc = [r \in AlertRequests |-> "idle"]
    /\ areq = [r \in AlertRequests |-> 0]
    /\ latest = [r \in AlertRequests |-> [air |-> None, water |-> None]]
    /\ alerts = [r \in AlertRequests |-> << >>]
    /\ hpc = [h \in HistoryRequests |-> "idle"]
    /\ hreq = [h \in HistoryRequests |-> [location_id |-> 0, days |-> 0]]
    /\ history = [h \in HistoryRequests |-> NoHistory]

\* nasa_client = NASAAPIClient() under any configuration
InitConfig ==
    /\ username \in Usernames
    /\ password \in Passwords
    /\ api_key \in ApiKeys
    /\ earthaccess \in BOOLEAN
    /\ login_raises \in BOOLEAN
    /\ authenticated = ClientInit(username, password, earthaccess, login_raises)

----------------------------------------------------------------------------
(* The client on its own: any configuration, then direct fetcher calls.    *)

InitClient ==
    /\ InitConfig
    /\ clock = 1
    /\ call = NoCall
    /\ InitStore
    /\ InitRequests

CallFetcher(d, env, rnd) ==
    /\ call = NoCall
    /\ call' = [fn |-> "fetch", domain |-> d, env |-> env,
                result |-> GetData(d, authenticated, api_key, earthaccess,
                                   env, rnd, clock)]
    /\ UNCHANGED <<hist_vars, client_vars, clock, store_vars, dash_vars, alert_vars>>

\* the caller has taken the result; the next call can be made
CallReturned ==
    /\ call # NoCall
    /\ call' = NoCall
    /\ UNCHANGED <<hist_vars, client_vars, clock, store_vars, dash_vars, alert_vars>>

NextClient ==
    \/ \E d \in Domains, env \in Envs : \E rnd \in DrawsFor(d) : CallFetcher(d, env, rnd)
    \/ CallReturned

SpecClient == InitClient /\ [][NextClient]_vars

----------------------------------------------------------------------------
(* The reducer on its own: the index computed from any three inputs.       *)

AqiInputs         == {-10, 0, 50, 99, 100, 101, 150, 500}
GroundwaterInputs == {-100, -26, -25, -20, 0, 20, 25, 100}
GreenInputs       == {-50, 0, 15, 65, 100, 500}

AirInputs        == {None} \cup {[aqi |-> a] : a \in AqiInputs}
WaterInputs      == {None} \cup {[groundwater_level |-> g] : g \in GroundwaterInputs}
VegetationInputs == {None} \cup {[green_coverage |-> g] : g \in GreenInputs}

\* a configuration without credentials
InitUnconfigured ==
    /\ username = ""
    /\ password = ""
    /\ api_key = ""
    /\ earthaccess = FALSE
    /\ login_raises = FALSE
    /\ authenticated = ClientInit(username, password, earthaccess, login_raises)

InitReducer ==
    /\ InitUnconfigured
    /\ clock = 1
    /\ call = NoCall
    /\ InitStore
    /\ InitRequests

CallReducer(a, w, v) ==
    /\ call = NoCall
    /\ call' = [fn |-> "reduce", air |-> a, water |-> w, vegetation |-> v,
                result |-> DashboardIndex(a, w, v)]
    /\ UNCHANGED <<hist_vars, client_vars, clock, store_vars, dash_vars, alert_vars>>

NextReducer ==
    \/ \E a \in AirInputs, w \in WaterInputs, v \in VegetationInputs : CallReducer(a, w, v)
    \/ CallReturned

SpecReducer == InitReducer /\ [][NextReducer]_vars

\* the index of every triple the fetchers can return: each quantity anywhere
\* in the range of its draw, in whole units
ProducedAir == {[aqi |-> a] : a \in Least(AqiDraws)..Greatest(AqiDraws)}
ProducedWater ==
    {[groundwater_level |-> g] : g \in Least(GroundwaterDraws)..Greatest(GroundwaterDraws)}
ProducedVegetation ==
    {[green_coverage |-> g] : g \in Least(GreenDraws)..Greatest(GreenDraws)}

NextProduced ==
    \/ /\ call = NoCall
       /\ \E a \in ProducedAir, w \in ProducedWater, v \in ProducedVegetation :
             CallReducer(a, w, v)
    \/ CallReturned

SpecProduced == InitReducer /\ [][NextProduced]_vars

----------------------------------------------------------------------------
(* get_dashboard_data, one step per statement that touches shared state.   *)

\* the draws of the fetches made by dashboard requests
DashDrawsFor(d) ==
    CASE d = "air" ->
           [no2 : {50}, o3 : {80}, pm25 : {35}, so2 : {15}, aqi : {150}]
      [] d = "water" ->
           [groundwater_level : {-20}, precipitation : {0}, flood_risk : {"High"}]
      [] d = "vegetation" ->
           [ndvi : {2}, evi : {1}, green_coverage : {15}, temperature : {35}]

AfterInsert(d) ==
    CASE d = "air"        -> "insert_water"
      [] d = "water"      -> "insert_vegetation"
      [] d = "vegetation" -> "commit"

\* get_dashboard_data without the lookup of lines 548-556
DashStartNoLookup(q, id) ==
    /\ pc[q] = "idle"
    /\ \A p \in Queries : p < q => pc[p] # "idle"
    /\ req' = [req EXCEPT ![q] = id]
    /\ conn' = [conn EXCEPT ![q].state = "open"]
    /\ pc' = [pc EXCEPT ![q] = "fetch"]
    /\ UNCHANGED <<hist_vars, client_vars, clock, call, store_vars, data, response,
                   alert_vars>>

\* lines 548-556: open the connection, look the location up; an unknown id
\* returns 404 (the connection is not closed on this path)
DashStart(q, id) ==
    /\ pc[q] = "idle"
    /\ \A p \in Queries : p < q => pc[p] # "idle"
    /\ req' = [req EXCEPT ![q] = id]
    /\ conn' = [conn EXCEPT ![q].state = "open"]
    /\ IF id \in locations
       THEN /\ pc' = [pc EXCEPT ![q] = "fetch"]
            /\ UNCHANGED response
       ELSE /\ pc' = [pc EXCEPT ![q] = "done"]
            /\ response' = [response EXCEPT ![q] = [status |-> 404, failed_at |-> ""]]
    /\ UNCHANGED <<hist_vars, client_vars, clock, call, store_vars, data, alert_vars>>

\* what get_<d>_data can return at time now under the client's configuration,
\* over everything the outside world may answer
FetchedFrom(d, now, draws) ==
    {GetData(d, authenticated, api_key, earthaccess, env, rnd, now).obs :
        env \in Envs, rnd \in draws}

Fetched(d, now) == FetchedFrom(d, now, DashDrawsFor(d))

\* lines 562-564: the three fetcher calls, one after the other, returning
\* one of as, ws, vs.  They touch no shared state; each reads the time once.
DashFetchOf(q, as, ws, vs) ==
    /\ pc[q] = "fetch"
    /\ \E a \in as, w \in ws, v \in vs :
          data' = [data EXCEPT ![q] =
                      [d \in Domains |-> CASE d = "air" -> a
                                           [] d = "water" -> w
                                           [] d = "vegetation" -> v]]
    /\ clock' = clock + 3
    /\ pc' = [pc EXCEPT ![q] = "insert_air"]
    /\ UNCHANGED <<hist_vars, client_vars, call, store_vars, req, conn, response, alert_vars>>

DashFetch(q) ==
    DashFetchOf(q, Fetched("air", clock), Fetched("water", clock + 1),
                Fetched("vegetation", clock + 2))

\* the same calls under every draw of DrawsFor
DashFetchAnyDraw(q) ==
    DashFetchOf(q, FetchedFrom("air", clock, DrawsFor("air")),
                FetchedFrom("water", clock + 1, DrawsFor("water")),
                FetchedFrom("vegetation", clock + 2, DrawsFor("vegetation")))

\* the row cursor.execute(INSERT ...) adds for domain d
RowFor(q, d) ==
    CASE d = "air"        -> AirRow(q, req[q], data[q][d])
      [] d = "water"      -> WaterRow(q, req[q], data[q][d])
      [] d = "vegetation" -> VegetationRow(q, req[q], data[q][d])

TableOf(d) ==
    CASE d = "air"        -> "air_quality"
      [] d = "water"      -> "water_data"
      [] d = "vegetation" -> "vegetation"

\* variant: a connection in autocommit mode, every INSERT durable at once
DashInsertAutocommit(q, d) ==
    /\ pc[q] = "insert_" \o d
    /\ writer \in {0, q}
    /\ air_quality' = IF d = "air" THEN Append(air_quality, RowFor(q, d)) ELSE air_quality
    /\ water_data' = IF d = "water" THEN Append(water_data, RowFor(q, d)) ELSE water_data
    /\ vegetation' = IF d = "vegetation" THEN Append(vegetation, RowFor(q, d)) ELSE vegetation
    /\ pc' = [pc EXCEPT ![q] = AfterInsert(d)]
    /\ UNCHANGED <<hist_vars, client_vars, clock, call, locations, api_logs, writer, req, conn,
                   data, response, alert_vars>>

\* lines 569-589: `if <data>: cursor.execute(INSERT ...)`.  The first INSERT of a
\* connection opens a transaction and takes the write lock; while another
\* connection holds it the statement waits.
DashInsert(q, d) ==
    /\ pc[q] = "insert_" \o d
    /\ IF Defined(data[q][d])
       THEN /\ writer \in {0, q}
            /\ writer' = q
            /\ conn' = [conn EXCEPT ![q].tx[TableOf(d)] = Append(@, RowFor(q, d))]
       ELSE UNCHANGED <<writer, conn>>
    /\ pc' = [pc EXCEPT ![q] = AfterInsert(d)]
    /\ UNCHANGED <<hist_vars, client_vars, clock, call, locations, air_quality, water_data,
                   vegetation, api_logs, req, data, response, alert_vars>>

\* conn.commit(): the connection's uncommitted rows become durable, the lock is released
Commit(q) ==
    /\ air_quality' = air_quality \o conn[q].tx.air_quality
    /\ water_data' = water_data \o conn[q].tx.water_data
    /\ vegetation' = vegetation \o conn[q].tx.vegetation
    /\ api_logs' = api_logs \o conn[q].tx.api_logs
    /\ writer' = IF writer = q THEN 0 ELSE writer

\* line 591
DashCommit(q) ==
    /\ pc[q] = "commit"
    /\ Commit(q)
    /\ conn' = [conn EXCEPT ![q].tx = NoTx]
    /\ pc' = [pc EXCEPT ![q] = "insert_log"]
    /\ UNCHANGED <<hist_vars, client_vars, clock, call, locations, req, data, response, alert_vars>>

\* lines 600-603
DashInsertLog(q) ==
    /\ pc[q] = "insert_log"
    /\ writer \in {0, q}
    /\ writer' = q
    /\ conn' = [conn EXCEPT ![q].tx.api_logs = Append(@, LogRow(q, req[q]))]
    /\ pc' = [pc EXCEPT ![q] = "commit_log"]
    /\ UNCHANGED <<hist_vars, client_vars, clock, call, locations, air_quality, water_data,
                   vegetation, api_logs, req, data, response, alert_vars>>

\* lines 605-619: commit, close, return the dashboard data
DashFinish(q) ==
    /\ pc[q] = "commit_log"
    /\ Commit(q)
    /\ conn' = [conn EXCEPT ![q] = [state |-> "closed", tx |-> NoTx]]
    /\ response' = [response EXCEPT ![q] =
                       [status |-> 200, failed_at |-> "",
                        wellbeing_index |->
                            DashboardIndex(data[q]["air"], data[q]["water"],
                                           data[q]["vegetation"])]]
    /\ data' = [data EXCEPT ![q] = [d \in Domains |-> None]]
    /\ pc' = [pc EXCEPT ![q] = "done"]
    /\ UNCHANGED <<hist_vars, client_vars, clock, call, locations, req, alert_vars>>

\* the statements of the try block that the store can reject
StoreSteps == {"insert_air", "insert_water", "insert_vegetation", "commit",
               "insert_log", "commit_log"}

\* conn.close() with a transaction open: its rows are rolled back, the lock is released
CloseRollback(q) ==
    /\ conn' = [conn EXCEPT ![q] = [state |-> "closed", tx |-> NoTx]]
    /\ writer' = IF writer = q THEN 0 ELSE writer

\* lines 621-624: a store statement raised (rejected write, lock wait timed
\* out): log, close the connection, return 500
DashFail(q) ==
    /\ pc[q] \in StoreSteps
    /\ CloseRollback(q)
    /\ response' = [response EXCEPT ![q] = [status |-> 500, failed_at |-> pc[q]]]
    /\ data' = [data EXCEPT ![q] = [d \in Domains |-> None]]
    /\ pc' = [pc EXCEPT ![q] = "done"]
    /\ UNCHANGED <<hist_vars, client_vars, clock, call, locations, air_quality, water_data,
                   vegetation, api_logs, req, alert_vars>>

----------------------------------------------------------------------------
(* get_alerts: two SELECTs on an autocommit connection, then the checks.   *)

\* lines 671-676
AlertsReadAir(r, id) ==
    /\ apc[r] = "idle"
    /\ areq' = [areq EXCEPT ![r] = id]
    /\ \E row \in LatestRows(air_quality, id) :
          latest' = [latest EXCEPT ![r].air = row]
    /\ apc' = [apc EXCEPT ![r] = "read_water"]
    /\ UNCHANGED <<hist_vars, client_vars, clock, call, store_vars, dash_vars, alerts>>

\* lines 678-685
AlertsReadWater(r) ==
    /\ apc[r] = "read_water"
    /\ \E row \in LatestRows(water_data, areq[r]) :
          latest' = [latest EXCEPT ![r].water = row]
    /\ apc' = [apc EXCEPT ![r] = "evaluate"]
    /\ UNCHANGED <<hist_vars, client_vars, clock, call, store_vars, dash_vars, areq, alerts>>

\* lines 687-716
AlertsRespond(r) ==
    /\ apc[r] = "evaluate"
    /\ alerts' = [alerts EXCEPT ![r] = EvaluateAlerts(latest[r].air, latest[r].water)]
    /\ apc' = [apc EXCEPT ![r] = "done"]
    /\ UNCHANGED <<hist_vars, client_vars, clock, call, store_vars, dash_vars, areq, latest>>

----------------------------------------------------------------------------
(* get_historical_data: three SELECTs on an autocommit connection.         *)

\* the values of the query argument days: request.args.get('days', 7, type=int)
\* gives the integer sent, and 7 when days is absent or is not an integer
DefaultDays == 7
DaysArgs == {-1, 0, 1, DefaultDays}

\* SELECT * FROM t WHERE location_id = ? ORDER BY timestamp DESC LIMIT n,
\* fetchall(): the row lists it may return.  Rows of equal timestamp come in
\* either order; SQLite applies no limit when n is negative.
SelectRecent(table, id, n) ==
    LET idx == {i \in 1..Len(table) : table[i].location_id = id}
        k == Cardinality(idx)
        m == IF n < 0 THEN k ELSE Min2(n, k)
        orders == {s \in [1..k -> idx] :
                      \A i, j \in 1..k :
                          i < j => /\ s[i] # s[j]
                                   /\ table[s[i]].timestamp >= table[s[j]].timestamp}
    IN  {[i \in 1..m |-> table[s[i]]] : s \in orders}

\* lines 629-638
HistoryReadAir(h, id, days) ==
    /\ hpc[h] = "idle"
    /\ hreq' = [hreq EXCEPT ![h] = [location_id |-> id, days |-> days]]
    /\ \E rows \in SelectRecent(air_quality, id, days) :
          history' = [history EXCEPT ![h].air_quality = rows]
    /\ hpc' = [hpc EXCEPT ![h] = "read_water"]
    /\ UNCHANGED <<client_vars, clock, call, store_vars, dash_vars, alert_vars>>

\* lines 640-645
HistoryReadWater(h) ==
    /\ hpc[h] = "read_water"
    /\ \E rows \in SelectRecent(water_data, hreq[h].location_id, hreq[h].days) :
          history' = [history EXCEPT ![h].water_security = rows]
    /\ hpc' = [hpc EXCEPT ![h] = "read_vegetation"]
    /\ UNCHANGED <<client_vars, clock, call, store_vars, dash_vars, alert_vars, hreq>>

\* lines 647-663: the last SELECT, conn.close() and the response
HistoryReadVegetation(h) ==
    /\ hpc[h] = "read_vegetation"
    /\ \E rows \in SelectRecent(vegetation, hreq[h].location_id, hreq[h].days) :
          history' = [history EXCEPT
                         ![h].vegetation = rows,
                         ![h].data_source = IF authenticated THEN "NASA APIs"
                                                             ELSE "Simulation"]
    /\ hpc' = [hpc EXCEPT ![h] = "done"]
    /\ UNCHANGED <<client_vars, clock, call, store_vars, dash_vars, alert_vars, hreq>>

----------------------------------------------------------------------------
(* add_location: validation of the JSON body, then one INSERT.             *)

MaxAdded == 2            \* locations added in one behaviour

\* a key of the JSON body: absent, null, or a value
Absent == [kind |-> "absent"]
JsonNull == [kind |-> "null"]
Number(n) == [kind |-> "number", val |-> n]
String(x) == [kind |-> "string", val |-> x]

Bodies ==
    [name : {Absent, JsonNull, String("Paris")},
     latitude : {Absent, JsonNull} \cup {Number(n) : n \in {-91, -90, 0, 90, 91}},
     longitude : {Absent, JsonNull} \cup {Number(n) : n \in {-181, -180, 0, 180, 181}}]

\* a <= x <= b on a JSON value: "TypeError" when x is not a number
Between(a, x, b) ==
    IF x.kind # "number" THEN "TypeError"
    ELSE IF a <= x.val /\ x.val <= b THEN "True" ELSE "False"

\* lines 519-543: the status returned; 500 is Flask's answer to an exception
\* that leaves the handler
add_location_status(body) ==
    IF \E k \in {"name", "latitude", "longitude"} : body[k] = Absent THEN 400
    ELSE IF Between(-90, body.latitude, 90) = "TypeError" THEN 500
    ELSE IF Between(-90, body.latitude, 90) = "False" THEN 400
    ELSE IF Between(-180, body.longitude, 180) = "TypeError" THEN 500
    ELSE IF Between(-180, body.longitude, 180) = "False" THEN 400
    ELSE IF body.name = JsonNull THEN 500
    ELSE 200

\* cursor.lastrowid of an INSERT into a table with INTEGER PRIMARY KEY
NextRowId(ids) == IF ids = {} THEN 1 ELSE 1 + CHOOSE x \in ids : \A y \in ids : y <= x

AddLocation(body) ==
    /\ call = NoCall
    /\ Cardinality(locations) < NumSampleLocations + MaxAdded
    /\ LET status == add_location_status(body)
           id == IF status = 200 THEN NextRowId(locations) ELSE 0
       IN  /\ locations' = IF status = 200 THEN locations \cup {id} ELSE locations
           /\ call' = [fn |-> "add_location", body |-> body, before |-> locations,
                       status |-> status, id |-> id]
    /\ UNCHANGED <<hist_vars, client_vars, clock, air_quality, water_data, vegetation,
                   api_logs, writer, dash_vars, alert_vars>>

----------------------------------------------------------------------------
(* The service: requests of any kind, interleaved.                         *)

\* The handlers read authenticated, api_key and earthaccess only, and the last
\* two only when authenticated.  Either nothing is configured, or both
\* credentials are set and the library is installed, with or without an API
\* key (without the library the fetchers return the same observations).
Init ==
    /\ InitConfig
    /\ \/ username = "astro" /\ password = "hunter2" /\ earthaccess /\ ~login_raises
       \/ username = "" /\ password = "" /\ api_key = "" /\ ~earthaccess /\ ~login_raises
    /\ clock = 1
    /\ call = NoCall
    /\ InitStore
    /\ InitRequests

NextDashboard ==
    \/ \E q \in Queries, id \in LocationIds : DashStart(q, id)
    \/ \E q \in Queries : DashFetch(q)
    \/ \E q \in Queries, d \in Domains : DashInsert(q, d)
    \/ \E q \in Queries : DashCommit(q)
    \/ \E q \in Queries : DashInsertLog(q)
    \/ \E q \in Queries : DashFinish(q)
    \/ \E q \in Queries : DashFail(q)

NextAlerts ==
    \/ \E r \in AlertRequests, id \in LocationIds : AlertsReadAir(r, id)
    \/ \E r \in AlertRequests : AlertsReadWater(r)
    \/ \E r \in AlertRequests : AlertsRespond(r)

NextHistory ==
    \/ \E h \in HistoryRequests, id \in LocationIds, days \in DaysArgs :
          HistoryReadAir(h, id, days)
    \/ \E h \in HistoryRequests : HistoryReadWater(h)
    \/ \E h \in HistoryRequests : HistoryReadVegetation(h)

NextLocations ==
    \/ \E body \in Bodies : AddLocation(body)
    \/ CallReturned

Next == NextDashboard \/ NextAlerts \/ NextHistory \/ NextLocations

\* every route, any number of requests up to the bounds; the specifications
\* below and after it are its parts, one kind of request or one request each
Spec == Init /\ [][Next]_vars

\* dashboard requests alone
SpecDashboard == Init /\ [][NextDashboard]_vars

\* one dashboard request, under every draw of its three observations
OneDashboardRequest ==
    \/ \E id \in LocationIds : DashStart(1, id)
    \/ DashFetchAnyDraw(1)
    \/ \E d \in Domains : DashInsert(1, d)
    \/ DashCommit(1)
    \/ DashInsertLog(1)
    \/ DashFinish(1)
    \/ DashFail(1)

SpecOneDashboard == Init /\ [][OneDashboardRequest]_vars

\* add_location requests alone
SpecLocations == Init /\ [][NextLocations]_vars

----------------------------------------------------------------------------
(* One alerts request on a store that earlier requests have filled.        *)

MaxStored == 2           \* rows per table in such a store
MaxAqi == 200            \* largest aqi of a stored row

StoredLocations == {1, 2}
Timestamps == 1..MaxStored

\* the columns get_alerts reads
AirRowsStored ==
    [query : {0}, location_id : StoredLocations, timestamp : Timestamps,
     aqi : {100, 160}, data_source : {SIMULATION}]

WaterRowsStored ==
    [query : {0}, location_id : StoredLocations, timestamp : Timestamps,
     groundwater_level : {-16, -15}, flood_risk : {"High", "Low"},
     data_source : {SIMULATION}]

\* tables of at most n rows of set rows, no two rows written at the same time
TablesOf(rows, n) ==
    UNION {{t \in [1..k -> rows] :
               \A i, j \in 1..k : i # j => t[i].timestamp # t[j].timestamp} : k \in 0..n}

\* the two SELECTs are independent: one table at a time holds several rows
InitAlerts ==
    /\ InitUnconfigured
    /\ clock = 1
    /\ call = NoCall
    /\ locations = 1..NumSampleLocations
    /\ \/ /\ air_quality \in TablesOf(AirRowsStored, MaxStored)
          /\ water_data \in TablesOf(WaterRowsStored, 1)
       \/ /\ air_quality \in TablesOf(AirRowsStored, 1)
          /\ water_data \in TablesOf(WaterRowsStored, MaxStored)
    /\ vegetation = << >>
    /\ api_logs = << >>
    /\ writer = 0
    /\ InitRequests

OneAlertsRequest ==
    \/ \E id \in LocationIds : AlertsReadAir(1, id)
    \/ AlertsReadWater(1)
    \/ AlertsRespond(1)

SpecAlerts == InitAlerts /\ [][OneAlertsRequest]_vars

\* the newest air row with any aqi of 0..MaxAqi
InitSeverity ==
    /\ InitUnconfigured
    /\ clock = 1
    /\ call = NoCall
    /\ locations = 1..NumSampleLocations
    /\ \E a \in 0..MaxAqi :
          air_quality = << [query |-> 0, location_id |-> 1, timestamp |-> 1,
                            aqi |-> a, data_source |-> SIMULATION] >>
    /\ water_data \in TablesOf({w \in WaterRowsStored : w.location_id = 1}, 1)
    /\ vegetation = << >>
    /\ api_logs = << >>
    /\ writer = 0
    /\ InitRequests

SpecSeverity == InitSeverity /\ [][OneAlertsRequest]_vars

----------------------------------------------------------------------------
(* One history request on a store that earlier requests have filled.       *)

\* stored rows of table t: any stored location, any time, one value
HistoryRowsStored(t) ==
    CASE t = "air_quality" ->
           [query : {0}, location_id : StoredLocations, timestamp : Timestamps,
            aqi : {100}, data_source : {SIMULATION}]
      [] t = "water_data" ->
           [query : {0}, location_id : StoredLocations, timestamp : Timestamps,
            groundwater_level : {-15}, flood_risk : {"Low"}, data_source : {SIMULATION}]
      [] t = "vegetation" ->
           [query : {0}, location_id : StoredLocations, timestamp : Timestamps,
            green_coverage : {15}, data_source : {SIMULATION}]

\* the three SELECTs are independent: table t holds up to MaxStored rows, the
\* other two at most one
HistoryTables(t, big) ==
    TablesOf(HistoryRowsStored(t), IF t = big THEN MaxStored ELSE 1)

InitHistory ==
    /\ InitUnconfigured
    /\ clock = 1
    /\ call = NoCall
    /\ locations = 1..NumSampleLocations
    /\ \E big \in {"air_quality", "water_data", "vegetation"} :
          /\ air_quality \in HistoryTables("air_quality", big)
          /\ water_data \in HistoryTables("water_data", big)
          /\ vegetation \in HistoryTables("vegetation", big)
    /\ api_logs = << >>
    /\ writer = 0
    /\ InitRequests

OneHistoryRequest ==
    \/ \E id \in LocationIds \cup StoredLocations, days \in DaysArgs :
          HistoryReadAir(1, id, days)
    \/ HistoryReadWater(1)
    \/ HistoryReadVegetation(1)

SpecHistory == InitHistory /\ [][OneHistoryRequest]_vars

----------------------------------------------------------------------------
(* One dashboard request interleaved with one alerts and one history       *)
(* request, on a store that starts empty.                                  *)

FirstDashboardRequest ==
    \/ \E id \in LocationIds : DashStart(1, id)
    \/ DashFetch(1)
    \/ \E d \in Domains : DashInsert(1, d)
    \/ DashCommit(1)
    \/ DashInsertLog(1)
    \/ DashFinish(1)
    \/ DashFail(1)

SpecReaders ==
    Init /\ [][FirstDashboardRequest \/ OneAlertsRequest \/ OneHistoryRequest]_vars

----------------------------------------------------------------------------
(* Properties of the client (SpecClient).                                  *)

\* some vendor request of the call was answered with a well-formed HTTP 200
Answered200 ==
    /\ authenticated
    /\ \/ Truthy(api_key) /\ call.env.a = "200"
       \/ call.domain = "air" /\ call.env.c = "200"

\* C1: a fetcher call never raises, whatever the mode, the API key and the
\* vendor's answers: it returns one observation of its domain, tagged
\* SIMULATION whenever no vendor request succeeded.
C1_FetcherAlwaysReturns ==
    call.fn = "fetch" =>
        /\ ~call.result.raised
        /\ call.result.obs # None
        /\ call.result.obs.source \in {SIMULATION, VendorTag(call.domain)}
        /\ (~Answered200 => call.result.obs.source = SIMULATION)

\* a Live fetch whose path A request raised, answered by the simulation
C1_Witness ==
    /\ call.fn = "fetch"
    /\ authenticated
    /\ Truthy(api_key)
    /\ call.env.a = "exception"
    /\ ~call.result.raised
    /\ call.result.obs.source = SIMULATION

\* C2: in Simulated mode every fetch returns a SIMULATION observation at
\* once: no request, import or search of a vendor path is made, API key or not.
C2_SimulatedModeNoVendorPath ==
    (call.fn = "fetch" /\ ~authenticated) =>
        /\ call.result.trace = << >>
        /\ ~call.result.raised
        /\ call.result.obs # None
        /\ call.result.obs.source = SIMULATION

\* a Simulated-mode fetch with an API key configured and a vendor that would answer 200
C2_Witness ==
    /\ call.fn = "fetch"
    /\ ~authenticated
    /\ Truthy(api_key)
    /\ call.env.a = "200"
    /\ call.result.obs.source = SIMULATION

\* C3 as claimed: the mode is Live iff both credentials are non-empty, and
\* nothing else (the login attempt, the library, the API key) decides it.
C3_ModeIffCredentialsPresent ==
    authenticated <=> (Truthy(username) /\ Truthy(password))

\* C3 as amended: the mode is Live iff both credentials are non-empty and the
\* login attempt of the initialization did not raise (no attempt is made
\* without the library); the API key and the fetches made later do not matter.
C3_ModeIffCredentialsAndLogin ==
    authenticated <=>
        (Truthy(username) /\ Truthy(password) /\ ~(earthaccess /\ login_raises))

\* both credentials and an API key set, the login raised, a fetch was made: Simulated
C3_Witness ==
    /\ Truthy(username)
    /\ Truthy(password)
    /\ Truthy(api_key)
    /\ earthaccess
    /\ login_raises
    /\ ~authenticated
    /\ call.fn = "fetch"

\* C4: the mode is Simulated whenever a credential is empty or is the known
\* placeholder, and Live only when both are non-empty and not the placeholder.
C4_PlaceholderMeansSimulated ==
    /\ (username \in {"", Placeholder} \/ password \in {"", Placeholder})
          => ~authenticated
    /\ authenticated =>
          /\ Truthy(username) /\ username # Placeholder
          /\ Truthy(password) /\ password # Placeholder

----------------------------------------------------------------------------
(* Properties of the reducer (SpecReducer), index in tenths.               *)

C5_AirScore(a)   == IF a = None THEN 50 ELSE IF a.aqi < 100 THEN 100 - a.aqi ELSE 0
C5_WaterScore(w) == IF w = None THEN 50 ELSE 50 + 2 * w.groundwater_level
C5_GreenScore(v) == IF v = None THEN 50 ELSE v.green_coverage
C5_Sum(a, w, v)  == 4 * C5_AirScore(a) + 3 * C5_WaterScore(w) + 3 * C5_GreenScore(v)
C5_Clamp(x)      == IF x < 0 THEN 0 ELSE IF x > 1000 THEN 1000 ELSE x

\* C5: for all inputs, defined or not, the index returned is
\* clamp(0.4*air_score + 0.3*water_score + 0.3*green_score, 0, 100) with 50
\* for each undefined input, and so lies in [0, 100].
C5_IndexIsClampedWeightedSum ==
    call.fn = "reduce" =>
        /\ call.result = C5_Clamp(C5_Sum(call.air, call.water, call.vegetation))
        /\ call.result \in 0..1000

\* an undefined air input and a sum above 100, returned as 100
C5_Witness ==
    /\ call.fn = "reduce"
    /\ call.air = None
    /\ call.water # None
    /\ C5_Sum(call.air, call.water, call.vegetation) > 1000
    /\ call.result = 1000

\* aqi = 500 with groundwater_level = +100, vegetation undefined or in [15, 65]
C6_AdversarialInput ==
    /\ call.fn = "reduce"
    /\ call.air = [aqi |-> 500]
    /\ call.water = [groundwater_level |-> 100]
    /\ (call.vegetation = None \/ call.vegetation.green_coverage \in 15..65)

\* C6 as claimed: that input yields exactly 100.
C6_AdversarialYields100 ==
    C6_AdversarialInput => call.result = 1000

\* C6 as amended: that input yields 75 + 0.3 * green_score, a value of
\* [79.5, 94.5] (90 without vegetation), which the clamp leaves as it is.
C6_AdversarialYields75PlusGreen ==
    C6_AdversarialInput =>
        /\ call.result = 750 + 3 * C5_GreenScore(call.vegetation)
        /\ call.result \in 795..945

\* the adversarial input with green_coverage = 65: index 94.5
C6_Witness ==
    /\ C6_AdversarialInput
    /\ call.vegetation = [green_coverage |-> 65]
    /\ call.result = 945

----------------------------------------------------------------------------
(* Properties of the alert evaluator (SpecAlerts, SpecSeverity).           *)

\* the rows of table for location id that no other such row is newer than
C7_Newest(table, id) ==
    {table[i] : i \in {k \in 1..Len(table) :
        /\ table[k].location_id = id
        /\ \A j \in 1..Len(table) :
              table[j].location_id = id => table[j].timestamp <= table[k].timestamp}}

C7_OrNone(rows) == IF rows = {} THEN {None} ELSE rows

\* the checks in their fixed order, each with whether it fires on (a, w)
C7_Expected(a, w) ==
    LET Fires(t) ==
            CASE t = "air_quality"  -> a # None /\ a.aqi > 100
              [] t = "flood_risk"   -> w # None /\ w.flood_risk = "High"
              [] t = "water_stress" -> w # None /\ w.groundwater_level < -15
    IN  SelectSeq(<<"air_quality", "flood_risk", "water_stress">>, Fires)

C7_Types(as) == [i \in 1..Len(as) |-> as[i].type]
C7_TypesAndSeverities(as) == [i \in 1..Len(as) |-> <<as[i].type, as[i].severity>>]

\* C7: the alerts returned are the checks that fire on the newest stored air
\* and water rows of the location, in the order air_quality, flood_risk,
\* water_stress; a domain without rows adds nothing; aqi 160, High, -16 gives
\* air_quality/danger, flood_risk/danger, water_stress/warning.
C7_AlertsInFixedOrder ==
    apc[1] = "done" =>
        \E a \in C7_OrNone(C7_Newest(air_quality, areq[1])),
           w \in C7_OrNone(C7_Newest(water_data, areq[1])) :
            /\ C7_Types(alerts[1]) = C7_Expected(a, w)
            /\ (a = None /\ w = None => alerts[1] = << >>)
            /\ (/\ a # None /\ a.aqi = 160
                /\ w # None /\ w.flood_risk = "High" /\ w.groundwater_level = -16)
               => C7_TypesAndSeverities(alerts[1]) =
                     << <<"air_quality", "danger">>, <<"flood_risk", "danger">>,
                        <<"water_stress", "warning">> >>

\* two air rows of the location, the older one (inserted last) below the
\* threshold, and all three alerts returned
C7_Witness ==
    /\ apc[1] = "done"
    /\ Len(air_quality) = 2
    /\ \A i \in 1..2 : air_quality[i].location_id = areq[1]
    /\ air_quality[2].aqi = 100
    /\ air_quality[2].timestamp < air_quality[1].timestamp
    /\ Len(alerts[1]) = 3

\* C8: no air_quality alert for aqi <= 100, severity warning for
\* 100 < aqi < 150, danger for aqi >= 150; flood_risk alerts are danger,
\* water_stress alerts are warning.
C8_SeverityByThreshold ==
    (apc[1] = "done" /\ areq[1] = 1) =>
        LET aqi == air_quality[1].aqi
            IsAir(x) == x.type = "air_quality"
            air == SelectSeq(alerts[1], IsAir)
        IN  /\ aqi <= 100 => air = << >>
            /\ (100 < aqi /\ aqi < 150) => (Len(air) = 1 /\ air[1].severity = "warning")
            /\ aqi >= 150 => (Len(air) = 1 /\ air[1].severity = "danger")
            /\ \A i \in 1..Len(alerts[1]) :
                  /\ alerts[1][i].type = "flood_risk" => alerts[1][i].severity = "danger"
                  /\ alerts[1][i].type = "water_stress" => alerts[1][i].severity = "warning"

\* aqi exactly 150: danger
C8_Witness ==
    /\ apc[1] = "done"
    /\ areq[1] = 1
    /\ air_quality[1].aqi = 150
    /\ Len(alerts[1]) >= 1
    /\ alerts[1][1].type = "air_quality"
    /\ alerts[1][1].severity = "danger"

----------------------------------------------------------------------------
(* Properties of the dashboard writes (SpecDashboard).                     *)

HasRowOf(table, q) == \E i \in 1..Len(table) : table[i].query = q

\* C9: a dashboard query whose vegetation insert the store rejected leaves
\* none of its air, water or vegetation rows durable, and returns the
\* internal failure (500), not success.
C9_ThirdInsertFailureRollsBack ==
    \A q \in Queries :
        response[q].failed_at = "insert_vegetation"
        => /\ pc[q] = "done"
           /\ response[q].status = 500
           /\ ~HasRowOf(air_quality, q)
           /\ ~HasRowOf(water_data, q)
           /\ ~HasRowOf(vegetation, q)

\* a query failed at its vegetation insert while another query's rows are durable
C9_Witness ==
    \E q, p \in Queries :
        /\ pc[q] = "done"
        /\ response[q].status = 500
        /\ response[q].failed_at = "insert_vegetation"
        /\ HasRowOf(air_quality, p)

\* C10: the three observation rows and the api_logs row of a query are one
\* batch: all four are durable or none is, and a query that returned the
\* internal failure has left none.
C10_SingleBatch ==
    \A q \in Queries :
        LET n == Cardinality({t \in {"a", "w", "v", "l"} :
                     CASE t = "a" -> HasRowOf(air_quality, q)
                       [] t = "w" -> HasRowOf(water_data, q)
                       [] t = "v" -> HasRowOf(vegetation, q)
                       [] t = "l" -> HasRowOf(api_logs, q)})
        IN  /\ n \in {0, 4}
            /\ response[q].status = 500 => n = 0

\* the number of rows a table holds for one location
C11_RowsFor(table, id) ==
    Cardinality({i \in 1..Len(table) : table[i].location_id = id})

C11_Successes(id) ==
    Cardinality({q \in Queries : response[q].status = 200 /\ req[q] = id})

\* C11: the three observation tables are append-only and one successful
\* dashboard query appends exactly one row to each: once every query that was
\* started has returned, each table holds for every location exactly as many
\* rows as successful queries were made for it (the tables start empty).
C11_OneRowPerSuccessfulQuery ==
    (\A q \in Queries : pc[q] \in {"idle", "done"})
    => \A id \in LocationIds :
          /\ C11_RowsFor(air_quality, id) = C11_Successes(id)
          /\ C11_RowsFor(water_data, id) = C11_Successes(id)
          /\ C11_RowsFor(vegetation, id) = C11_Successes(id)

----------------------------------------------------------------------------
(* Properties of the history reads (SpecHistory).                          *)

\* rows is the n newest rows of table for location id, newest first, and no
\* more than n rows (no row when n is not positive)
C12_NewestFirst(rows, table, id, n) ==
    LET of == {i \in 1..Len(table) : table[i].location_id = id}
        picked == {i \in of : \E j \in 1..Len(rows) : rows[j] = table[i]}
    IN  /\ Len(rows) <= Max2(n, 0)
        /\ Cardinality(picked) = Len(rows)
        /\ Len(rows) = Max2(n, 0) \/ picked = of
        /\ \A j \in 1..Len(rows) : rows[j] \in {table[i] : i \in of}
        /\ \A j \in 2..Len(rows) : rows[j - 1].timestamp >= rows[j].timestamp
        /\ \A i \in of \ picked, j \in 1..Len(rows) :
               table[i].timestamp <= rows[j].timestamp

\* C12: whatever limit N the caller sends, a history request returns from
\* each observation table at most N rows of the location, the N most recent
\* ones in descending timestamp order, and no step of it changes a table.
C12_HistoryAtMostNMostRecent ==
    /\ [](\A h \in HistoryRequests :
             hpc[h] = "done"
             => /\ C12_NewestFirst(history[h].air_quality, air_quality,
                                   hreq[h].location_id, hreq[h].days)
                /\ C12_NewestFirst(history[h].water_security, water_data,
                                   hreq[h].location_id, hreq[h].days)
                /\ C12_NewestFirst(history[h].vegetation, vegetation,
                                   hreq[h].location_id, hreq[h].days))
    /\ [][hpc' # hpc => UNCHANGED store_vars]_vars

----------------------------------------------------------------------------
(* Properties of add_location (SpecLocations).                             *)

\* the JSON value is a number outside lo..hi
C13_Outside(x, lo, hi) == x.kind = "number" /\ (x.val < lo \/ x.val > hi)

C13_Invalid(body) ==
    \/ \E k \in {"name", "latitude", "longitude"} : body[k] = Absent
    \/ C13_Outside(body.latitude, -90, 90)
    \/ C13_Outside(body.longitude, -180, 180)

\* C13: add_location answers a body with a required key missing, or with a
\* latitude outside [-90, 90] or a longitude outside [-180, 180], with the
\* validation error (400) and leaves the locations unchanged; every other
\* body, the boundary values included, adds exactly one location and returns
\* its new id.
C13_ValidatedOrAdded ==
    call.fn = "add_location"
    => IF C13_Invalid(call.body)
       THEN call.status = 400 /\ locations = call.before
       ELSE /\ call.status = 200
            /\ call.id \notin call.before
            /\ locations = call.before \cup {call.id}

----------------------------------------------------------------------------
(* Properties of the dashboard requests (SpecDashboard).                   *)

\* C14: a dashboard request for an id that is no registered location returns
\* not-found (404, not the internal failure 500) at once: it makes no fetch
\* (the clock the fetchers read is not advanced), and neither that step nor
\* any later one leaves a row of the request in any table.
C14_UnknownLocationNotFound ==
    /\ [](\A q \in Queries :
             response[q].status = 404
             => /\ pc[q] = "done"
                /\ req[q] \notin locations
                /\ response[q].failed_at = ""
                /\ conn[q].tx = NoTx
                /\ ~HasRowOf(air_quality, q) /\ ~HasRowOf(water_data, q)
                /\ ~HasRowOf(vegetation, q) /\ ~HasRowOf(api_logs, q))
    /\ [][\A q \in Queries :
             (pc[q] = "idle" /\ pc'[q] # "idle" /\ req'[q] \notin locations)
             => /\ pc'[q] = "done"
                /\ response'[q].status = 404
                /\ data'[q] = data[q]
                /\ clock' = clock
                /\ UNCHANGED <<air_quality, water_data, vegetation, api_logs>>]_vars

\* a request for an unknown id was answered 404 while another request's rows
\* are stored
C14_Witness ==
    \E q, p \in Queries :
        /\ req[q] \notin locations
        /\ response[q].status = 404
        /\ HasRowOf(air_quality, p)
        /\ HasRowOf(api_logs, p)

----------------------------------------------------------------------------
(* Properties of the stored observations (SpecOneDashboard).               *)

C15_In(x, lo, hi) == lo <= x /\ x <= hi

\* C15: every stored observation row, whatever its source tag, has each field
\* within the range of the simulation: no2 10..50, o3 20..80, pm25 5..35,
\* so2 1..15, aqi an integer of 50..150; groundwater_level -20..20,
\* precipitation 0..15, flood_risk Low, Medium or High; ndvi 0.2..0.8,
\* evi 0.1..0.6, green_coverage 15..65, temperature 20..35.
C15_StoredRowsWithinRanges ==
    /\ \A i \in 1..Len(air_quality) :
          LET r == air_quality[i]
          IN  /\ C15_In(r.no2, 10, 50) /\ C15_In(r.o3, 20, 80)
              /\ C15_In(r.pm25, 5, 35) /\ C15_In(r.so2, 1, 15)
              /\ r.aqi \in 50..150
    /\ \A i \in 1..Len(water_data) :
          LET r == water_data[i]
          IN  /\ C15_In(r.groundwater_level, -20, 20)
              /\ C15_In(r.precipitation, 0, 15)
              /\ r.flood_risk \in {"Low", "Medium", "High"}
    /\ \A i \in 1..Len(vegetation) :
          LET r == vegetation[i]
          IN  /\ C15_In(r.ndvi, 2, 8) /\ C15_In(r.evi, 1, 6)
              /\ C15_In(r.green_coverage, 15, 65)
              /\ C15_In(r.temperature, 20, 35)

\* a vendor-tagged air row at the top of its ranges is stored next to a
\* simulated water row at the bottom of its ranges
C15_Witness ==
    /\ \E i \in 1..Len(air_quality) :
          /\ air_quality[i].data_source = NASA_TEMPO_OMI
          /\ air_quality[i].aqi = 150 /\ air_quality[i].no2 = 50
    /\ \E i \in 1..Len(water_data) :
          /\ water_data[i].data_source = SIMULATION
          /\ water_data[i].groundwater_level = -20
          /\ water_data[i].precipitation = 0

----------------------------------------------------------------------------
(* Properties of the vendor paths of a Live-mode fetch (SpecClient).       *)

\* the call made a step of path A, B, C
Tried(x) == \E i \in 1..Len(call.result.trace) : call.result.trace[i] = x
TriedA == Tried("A_request")
TriedB == Tried("B_search") \/ Tried("B_import_error")
TriedC == Tried("C_request") \/ Tried("C_stub")

LiveFetch == call.fn = "fetch" /\ authenticated

\* C16: in Live mode a failed vendor path never ends the fetch: after path A
\* failed (a non-200 answer or an exception) path B is attempted, after path
\* B failed (library missing, empty search, exception) path C is attempted,
\* and a simulated observation is returned only after A (when there is an
\* API key), B and C have all been attempted.
C16_FailedPathFallsThrough ==
    LiveFetch
    => /\ (TriedA /\ call.env.a # "200") => TriedB
       /\ (TriedB /\ (~earthaccess \/ call.env.b \in {"empty", "exception"})) => TriedC
       /\ call.result.obs.source = SIMULATION
          => /\ Truthy(api_key) => TriedA
             /\ TriedB
             /\ TriedC

\* 1, 2, 3 for a step of path A, B, C
C17_PathOf(x) ==
    CASE x = "A_request" -> 1
      [] x \in {"B_import_error", "B_search", "B_download"} -> 2
      [] x \in {"C_request", "C_stub"} -> 3

\* C17: a Live-mode fetch tries the paths in the order A, B, C, each at most
\* once, path A only with an API key; the first path that yields a result
\* (A answered 200, the B search found granules, C answered 200) ends the
\* sequence and the observation returned is the one made from that result,
\* tagged with the vendor.
C17_PathsInOrderFirstResultWins ==
    LiveFetch
    => LET t == call.result.trace
       IN  /\ \A i, j \in 1..Len(t) :
                  i < j => t[i] # t[j] /\ C17_PathOf(t[i]) <= C17_PathOf(t[j])
           /\ TriedA => Truthy(api_key)
           /\ (TriedA /\ call.env.a = "200")
              => ~TriedB /\ ~TriedC /\ call.result.obs.source = VendorTag(call.domain)
           /\ (Tried("B_search") /\ call.env.b = "results")
              => ~TriedC /\ call.result.obs.source = VendorTag(call.domain)
           /\ (Tried("C_request") /\ call.env.c = "200")
              => call.result.obs.source = VendorTag(call.domain)

\* C18: in Live mode, when path A gave no result and the search of path B
\* returns results, the fetcher of every domain returns an observation with
\* the vendor tag of the domain.
C18_SearchResultsGiveLiveObservation ==
    (LiveFetch /\ Tried("B_search") /\ call.env.b = "results")
    => call.result.obs.source = VendorTag(call.domain)

----------------------------------------------------------------------------
(* Properties of reads interleaved with a dashboard request (SpecReaders). *)

C19_IsRowOf(row, q) == row # None /\ row.query = q
C19_HasRowOf(rows, q) == \E i \in 1..Len(rows) : rows[i].query = q

\* C19: no alerts or history request observes a torn batch: of the rows of
\* one dashboard query for the location it reads, a finished alerts request
\* has seen the air row exactly if it has seen the water row, and a finished
\* history request has seen the air, water and vegetation rows all or none.
C19_NoTornRead ==
    \A q \in Queries :
        /\ \A r \in AlertRequests :
               apc[r] \in {"evaluate", "done"}
               => (C19_IsRowOf(latest[r].air, q) <=> C19_IsRowOf(latest[r].water, q))
        /\ \A h \in HistoryRequests :
               hpc[h] = "done"
               => /\ C19_HasRowOf(history[h].air_quality, q)
                     <=> C19_HasRowOf(history[h].water_security, q)
                  /\ C19_HasRowOf(history[h].water_security, q)
                     <=> C19_HasRowOf(history[h].vegetation, q)

\* C20: a dashboard request that has returned, whatever it returned (200,
\* 404 or 500), has closed the connection it opened.
C20_ConnectionReleased ==
    \A q \in Queries : pc[q] = "done" => conn[q].state = "closed"

----------------------------------------------------------------------------
(* Where a vendor tag can come from (SpecClient).                          *)

----------------------------------------------------------------------------
(* The index of the observations the fetchers produce (SpecProduced).      *)

\* C22: for every triple the fetchers can produce (aqi in 50..150,
\* groundwater_level in -20..20, green_coverage in 15..65) the weighted sum
\* lies in [7.5, 66.5] before clamping, so the index returned is the sum
\* itself and is never below 7.5 or above 66.5 (tenths: 75 and 665).
C22_IndexBetween75And665Tenths ==
    call.fn = "reduce"
    => /\ C5_Sum(call.air, call.water, call.vegetation) \in 75..665
       /\ call.result = C5_Sum(call.air, call.water, call.vegetation)

\* the two ends are attained: the worst triple gives 7.5
C22_Witness ==
    /\ call.fn = "reduce"
    /\ call.air.aqi = 150
    /\ call.water.groundwater_level = -20
    /\ call.vegetation.green_coverage = 15
    /\ call.result = 75

====
